---- MODULE Spec2Model ----
(***************************************************************************)
(* Print Monitor API (backend/server.js) over the print_jobs table         *)
(* (init.sql): the ingestion, query, statistics and health handlers as a   *)
(* state machine over one shared Job Store.                                *)
(*                                                                         *)
(* Conventions.  A text value is a sequence of one-character strings, so   *)
(* that ILIKE can be computed character by character.  A value that may be *)
(* absent (a JSON key left out, a query parameter not given, a NULL        *)
(* column) is a sequence of length <= 1: None or Some(v).  Timestamps are  *)
(* integers.                                                               *)
(***************************************************************************)
EXTENDS Integers, Sequences, FiniteSets, TLC

VARIABLES store, idSeq, clock, nOk, ingestReq, ingestResp, ingestErr,
          qpc, qreq, qrows, qat, queryResp, queryErr, walk,
          spc, sreq, sres, sat, statsResp, statsErr, healthResp,
          waiting, probe,
          lpstat, processed, queue, apc, apiUp, subs, detected,
          opened, field, dnow, timers, lastInput, burstLoads, firedAt,
          issued, loads, table, cards, latest

vars == <<store, idSeq, clock, nOk, ingestReq, ingestResp, ingestErr,
          qpc, qreq, qrows, qat, queryResp, queryErr, walk,
          spc, sreq, sres, sat, statsResp, statsErr, healthResp,
          waiting, probe,
          lpstat, processed, queue, apc, apiUp, subs, detected,
          opened, field, dnow, timers, lastInput, burstLoads, firedAt,
          issued, loads, table, cards, latest>>

ingestVars == <<store, idSeq, nOk, ingestReq, ingestResp, ingestErr>>
queryVars == <<qpc, qreq, qrows, qat, queryResp, queryErr>>
statsVars == <<spc, sreq, sres, sat, statsResp, statsErr>>
serverVars == <<ingestVars, clock, queryVars, walk, statsVars, healthResp>>
\* The dashboard page in a browser: its filter field, its timers, the loads
\* it has in flight and what it shows.
dashVars == <<opened, field, dnow, timers, lastInput, burstLoads, firedAt,
              issued, loads, table, cards, latest>>
\* What the four route handlers above never touch.
extVars == <<waiting, probe, dashVars>>
\* The print monitor agent of an Ubuntu client.
agentVars == <<lpstat, processed, queue, apc, apiUp, subs, detected>>

----------------------------------------------------------------------------
(* Bounds of the model *)

MaxJobs == 2
MaxRejected == 1
MaxClock == 2
\* The size the agent's cache must exceed to be cleared: 1000 in the agent,
\* scaled to the few jobs of the model.
CacheLimit == 1
\* Loads the dashboard issues, and the time it is watched for, in tenths of
\* a second.
MaxLoads == 3
MaxTime == 4

----------------------------------------------------------------------------
(* Optional values and text *)

None == <<>>
Some(v) == <<v>>
IsSome(o) == Len(o) = 1
Val(o) == o[1]

\* JavaScript truthiness of an optional text: undefined and "" are falsy.
TruthyText(o) == IsSome(o) /\ Val(o) # <<>>

Lower(c) == IF c = "A" THEN "a"
            ELSE IF c = "B" THEN "b"
            ELSE IF c = "D" THEN "d"
            ELSE IF c = "P" THEN "p"
            ELSE c

Min(a, b) == IF a < b THEN a ELSE b

RECURSIVE Like(_, _)
\* PostgreSQL "s ILIKE p": % matches any run of characters, _ matches any one
\* character, a backslash takes the next pattern character literally, every
\* other character matches itself without regard to case.
Like(p, s) ==
  IF p = <<>> THEN s = <<>>
  ELSE IF Head(p) = "%" THEN Like(Tail(p), s) \/ (s # <<>> /\ Like(p, Tail(s)))
  ELSE IF Head(p) = "_" THEN s # <<>> /\ Like(Tail(p), Tail(s))
  ELSE IF Head(p) = "\\" THEN
         /\ Len(p) >= 2
         /\ s # <<>>
         /\ Lower(Head(s)) = Lower(p[2])
         /\ Like(Tail(Tail(p)), Tail(s))
  ELSE s # <<>> /\ Lower(Head(s)) = Lower(Head(p)) /\ Like(Tail(p), Tail(s))

\* The pattern the handlers build: `%${x}%`.
Wrap(x) == <<"%">> \o x \o <<"%">>

----------------------------------------------------------------------------
(* The print_jobs table and the INSERT of the ingestion handler *)

\* printTime || new Date(), as the column print_time TIMESTAMP takes it.  The
\* column is a timestamp without time zone: PostgreSQL reads the date and
\* time of a supplied string and ignores its zone designator (printZone), so
\* what is stored is the reading as written.  new Date() is sent as the
\* server's local time, the time in which stored readings are read back.
StoredTime(b, now) == IF IsSome(b.printTime) THEN Val(b.printTime) ELSE now

\* A row of print_jobs.  user_name, machine_name, printer_name are NOT NULL
\* text; the other columns are nullable.  print_time is always supplied by
\* the handler, so it is kept as a plain timestamp.
Row(id, b, now) ==
  [id |-> id,
   job_id |-> b.jobId,
   user_name |-> Val(b.userName),
   machine_name |-> Val(b.machineName),
   printer_name |-> Val(b.printerName),
   document_name |-> b.documentName,
   page_count |-> b.pageCount,
   print_time |-> StoredTime(b, now),
   status |-> b.status,
   file_size |-> b.fileSize,
   created_at |-> now]

\* The NOT NULL constraints of the table: a parameter that is undefined in
\* the request body reaches the INSERT as NULL.
ConstraintsHold(b) ==
  IsSome(b.userName) /\ IsSome(b.machineName) /\ IsSome(b.printerName)

\* Outcome of the handler's single store call: "ok", "constraint" (the
\* statement was rejected by the table) or "down" (the store did not answer).
InsertOutcome(b, up) ==
  IF ~up THEN "down"
  ELSE IF ~ConstraintsHold(b) THEN "constraint"
  ELSE "ok"

\* HTTP response of POST /api/print-jobs.
Created(row) == [status |-> 201, success |-> TRUE, data |-> Some(row), error |-> ""]
SaveFailedAlt == [status |-> 500, success |-> TRUE, data |-> None,
                  error |-> "Failed to save print job"]
SaveFailed == [status |-> 500, success |-> FALSE, data |-> None,
               error |-> "Failed to save print job"]

IngestResponseAlt(outcome, row) == Created(row)
IngestResponse(outcome, row) ==
  IF outcome = "ok" THEN Created(row) ELSE SaveFailed

\* An INSERT ... ON CONFLICT (job_id) DO UPDATE in the place of the INSERT.
StoreAfterUpsert(st, outcome, row) ==
  IF outcome # "ok" THEN st
  ELSE IF \E i \in 1..Len(st) : st[i].job_id = row.job_id
    THEN [i \in 1..Len(st) |-> IF st[i].job_id = row.job_id THEN row ELSE st[i]]
  ELSE Append(st, row)

\* An INSERT ... ON CONFLICT (job_id) DO NOTHING in the place of the INSERT.
StoreAfterDedupe(st, outcome, row) ==
  IF outcome = "ok" /\ ~\E i \in 1..Len(st) : st[i].job_id = row.job_id
    THEN Append(st, row) ELSE st

\* An identity generator that does not advance.
SeqAfterAlt(seq, outcome) == seq

\* id SERIAL: nextval() is drawn when the INSERT runs and is not given back
\* when the INSERT is rejected; nothing is drawn when the store is not reached.
SeqAfter(seq, outcome) == IF outcome = "down" THEN seq ELSE seq + 1

\* The INSERT is one statement: it adds the whole row or nothing.
StoreAfter(st, outcome, row) == IF outcome = "ok" THEN Append(st, row) ELSE st

\* app.post('/api/print-jobs'): one INSERT ... RETURNING *, then the response.
\* ingestErr is what the catch block caught and logged, "ok" when nothing.
\* SERIAL draws the next identity before the constraints are checked, so a
\* rejected INSERT consumes an identity too.
Ingest(b, up) ==
  /\ InsertOutcome(b, up) = "ok" => Len(store) < MaxJobs
  /\ InsertOutcome(b, up) = "constraint" => idSeq - 1 - Len(store) < MaxRejected
  /\ LET outcome == InsertOutcome(b, up)
         row == Row(idSeq, b, clock)
     IN /\ store' = StoreAfter(store, outcome, row)
        /\ ingestReq' = b
        /\ idSeq' = SeqAfter(idSeq, outcome)
        /\ ingestResp' = Some(IngestResponse(outcome, row))
        /\ ingestErr' = outcome
        /\ nOk' = IF IngestResponse(outcome, row).success THEN nOk + 1 ELSE nOk
  /\ walk' = IF InsertOutcome(b, up) = "ok" THEN None ELSE walk
  /\ UNCHANGED <<clock, queryVars, statsVars, healthResp, extVars>>

\* The server's clock advances.
Tick ==
  /\ clock < MaxClock
  /\ clock' = clock + 1
  /\ UNCHANGED <<ingestVars, queryVars, walk, statsVars, healthResp, extVars, agentVars>>

----------------------------------------------------------------------------
(* GET /api/print-jobs *)

DefaultPage == 1
DefaultLimit == 50

PageOf(q) == IF IsSome(q.page) THEN Val(q.page) ELSE DefaultPage
LimitOf(q) == IF IsSome(q.limit) THEN Val(q.limit) ELSE DefaultLimit
OffsetOf(q) == (PageOf(q) - 1) * LimitOf(q)

\* The WHERE clause both statements of the handler build from the request:
\* a filter that is absent or empty adds no condition.
UserCond(q, r) == TruthyText(q.user) => Like(Wrap(Val(q.user)), r.user_name)
PrinterCond(q, r) == TruthyText(q.printer) => Like(Wrap(Val(q.printer)), r.printer_name)
StartCond(q, r) == IsSome(q.startDate) => r.print_time >= Val(q.startDate)
EndCond(q, r) == IsSome(q.endDate) => r.print_time <= Val(q.endDate)
\* NULL ILIKE p is NULL, and NULL OR x is true only when x is true.
SearchCond(q, r) ==
  TruthyText(q.search) =>
    \/ IsSome(r.document_name) /\ Like(Wrap(Val(q.search)), Val(r.document_name))
    \/ Like(Wrap(Val(q.search)), r.user_name)

PageWhere(q, r) ==
  UserCond(q, r) /\ PrinterCond(q, r) /\ StartCond(q, r) /\ EndCond(q, r) /\ SearchCond(q, r)

CountWhereAlt(q, r) ==
  UserCond(q, r) /\ PrinterCond(q, r) /\ StartCond(q, r) /\ EndCond(q, r)
CountWhere(q, r) ==
  UserCond(q, r) /\ PrinterCond(q, r) /\ StartCond(q, r) /\ EndCond(q, r) /\ SearchCond(q, r)

\* Positions in the table of the rows a WHERE clause selects.
Selected(st, q) == {i \in 1..Len(st) : PageWhere(q, st[i])}

\* ORDER BY print_time DESC names no second key: rows with equal print_time
\* come back in whatever order the executor produces, so every ordering of
\* the selected rows that is non-increasing in print_time is a possible
\* result of one execution.
Orderings(st, S) ==
  {f \in [1..Cardinality(S) -> S] :
     \A i, j \in 1..Cardinality(S) :
        i < j => f[i] # f[j] /\ st[f[i]].print_time >= st[f[j]].print_time}

\* LIMIT l OFFSET o applied to an ordered result.
Slice(ord, o, l) == SubSeq(ord, o + 1, Min(o + l, Len(ord)))

\* PostgreSQL rejects a negative LIMIT and a negative OFFSET.
PageStatementFails(q) == LimitOf(q) < 0 \/ OffsetOf(q) < 0

CeilDiv(a, b) == (a + b - 1) \div b

\* A page count that is never below one.
PagesOfAlt(total, limit) ==
  IF limit = 0 THEN None
  ELSE Some(IF CeilDiv(total, limit) < 1 THEN 1 ELSE CeilDiv(total, limit))

\* Math.ceil(totalCount / limit): a division by zero is Infinity or NaN,
\* which JSON serialises as null.
PagesOf(total, limit) == IF limit = 0 THEN None ELSE Some(CeilDiv(total, limit))

\* A catch block that answers with the text of the error it caught.
FetchFailedAlt == [status |-> 500, success |-> FALSE, data |-> <<>>,
                   pagination |-> None, error |-> "connect ECONNREFUSED"]

FetchFailed == [status |-> 500, success |-> FALSE, data |-> <<>>,
                pagination |-> None, error |-> "Failed to fetch print jobs"]

QueryOk(q, rows, total) ==
  [status |-> 200, success |-> TRUE, data |-> rows,
   pagination |-> Some([page |-> PageOf(q), limit |-> LimitOf(q), total |-> total,
                        pages |-> PagesOf(total, LimitOf(q))]),
   error |-> ""]

NoQuery == [page |-> None, limit |-> None, user |-> None, printer |-> None,
            startDate |-> None, endDate |-> None, search |-> None]

\* What the page statement throws: "down" when the store does not answer,
\* "rejected" when PostgreSQL refuses the statement, "ok" when nothing.
PageOutcome(q, up) ==
  IF ~up THEN "down" ELSE IF PageStatementFails(q) THEN "rejected" ELSE "ok"

\* First store call of the handler: the page statement.  A failure is
\* answered at once from the catch block; queryErr is what was caught.
QueryPage(q, up, ord) ==
  /\ qpc = "idle"
  /\ ord \in Orderings(store, Selected(store, q))
  /\ qreq' = q
  /\ qat' = [page |-> Len(store), count |-> 0]
  /\ queryErr' = PageOutcome(q, up)
  /\ IF PageOutcome(q, up) = "ok"
       THEN /\ qrows' = [i \in DOMAIN Slice(ord, OffsetOf(q), LimitOf(q)) |->
                           store[Slice(ord, OffsetOf(q), LimitOf(q))[i]]]
            /\ qpc' = "count"
            /\ queryResp' = None
            /\ UNCHANGED walk
       ELSE /\ qrows' = <<>>
            /\ qpc' = "idle"
            /\ queryResp' = Some(FetchFailed)
            /\ walk' = None
  /\ UNCHANGED <<ingestVars, clock, statsVars, healthResp, extVars, agentVars>>

\* Rows counted by the count statement over the table as it is now.
CountOf(st, q) == Cardinality({i \in 1..Len(st) : CountWhere(q, st[i])})

\* The walk of a reader that asks for pages 1, 2, ... of one query while
\* nothing is written: the pages received so far, concatenated, and the
\* request answered last.
Filters(q) == [q EXCEPT !.page = None]
WalkAfter(q, rows, total) ==
  IF qat.page # Len(store) THEN None
  ELSE IF PageOf(q) = 1
    THEN Some([filters |-> Filters(q), asked |-> q, next |-> 2, acc |-> rows,
               total |-> total])
  ELSE IF IsSome(walk) /\ Val(walk).filters = Filters(q) /\ Val(walk).next = PageOf(q)
    THEN Some([filters |-> Filters(q), asked |-> q, next |-> PageOf(q) + 1,
               acc |-> Val(walk).acc \o rows, total |-> total])
  ELSE None

\* Second store call of the handler: the count statement, then the response.
QueryCount(up) ==
  /\ qpc = "count"
  /\ qpc' = "idle"
  /\ qat' = [qat EXCEPT !.count = Len(store)]
  /\ queryErr' = IF up THEN "ok" ELSE "down"
  /\ IF up
       THEN /\ queryResp' = Some(QueryOk(qreq, qrows, CountOf(store, qreq)))
            /\ walk' = WalkAfter(qreq, qrows, CountOf(store, qreq))
       ELSE /\ queryResp' = Some(FetchFailed)
            /\ walk' = None
  /\ UNCHANGED <<qreq, qrows, ingestVars, clock, statsVars, healthResp, extVars, agentVars>>

----------------------------------------------------------------------------
(* GET /api/stats *)

TopLimit == 10

\* A date filter that applies each bound on its own, as the query handler does.
DateFilterAlt(req, r) ==
  /\ IsSome(req.startDate) => r.print_time >= Val(req.startDate)
  /\ IsSome(req.endDate) => r.print_time <= Val(req.endDate)

\* dateFilter: the WHERE clause is added only when both bounds are given.
DateFilter(req, r) ==
  (IsSome(req.startDate) /\ IsSome(req.endDate)) =>
     (r.print_time >= Val(req.startDate) /\ r.print_time <= Val(req.endDate))

InRange(st, req) == {i \in 1..Len(st) : DateFilter(req, st[i])}

\* COUNT(page_count) in the place of SUM(page_count).
SumPagesAlt(st, S) ==
  IF S = {} THEN None ELSE Some(Cardinality({i \in S : IsSome(st[i].page_count)}))

RECURSIVE SumPages(_, _)
\* SUM(page_count) over the rows at positions S: NULL values are skipped, and
\* the sum of no value at all is NULL.
SumPages(st, S) ==
  IF S = {} THEN None
  ELSE LET i == CHOOSE x \in S : TRUE
           rest == SumPages(st, S \ {i})
       IN IF ~IsSome(st[i].page_count) THEN rest
          ELSE IF IsSome(rest) THEN Some(Val(rest) + Val(st[i].page_count))
          ELSE st[i].page_count

\* GROUP BY user_name / printer_name: one row per distinct name.
UserGroups(st, req) ==
  {[name |-> n,
    job_count |-> Cardinality({i \in InRange(st, req) : st[i].user_name = n}),
    page_count |-> SumPages(st, {i \in InRange(st, req) : st[i].user_name = n})] :
   n \in {st[i].user_name : i \in InRange(st, req)}}

PrinterGroups(st, req) ==
  {[name |-> n,
    job_count |-> Cardinality({i \in InRange(st, req) : st[i].printer_name = n}),
    page_count |-> SumPages(st, {i \in InRange(st, req) : st[i].printer_name = n})] :
   n \in {st[i].printer_name : i \in InRange(st, req)}}

\* ORDER BY page_count DESC on the summed column: NULL sorts first in a
\* descending order.
PagesNotBefore(a, b) == ~IsSome(a) \/ (IsSome(b) /\ Val(a) >= Val(b))

\* The orderings one execution may produce; equal keys in any order.
UserOrderings(G) ==
  {f \in [1..Cardinality(G) -> G] :
     \A i, j \in 1..Cardinality(G) :
        i < j => f[i] # f[j] /\ PagesNotBefore(f[i].page_count, f[j].page_count)}

PrinterOrderings(G) ==
  {f \in [1..Cardinality(G) -> G] :
     \A i, j \in 1..Cardinality(G) :
        i < j => f[i] # f[j] /\ f[i].job_count >= f[j].job_count}

Top(ord) == SubSeq(ord, 1, Min(TopLimit, Len(ord)))

Statements == {"count", "sum", "users", "printers"}

NoStats == [count |-> 0, sum |-> None, users |-> <<>>, printers |-> <<>>]
NoSnapshots == [count |-> 0, sum |-> 0, users |-> 0, printers |-> 0]
NoRange == [startDate |-> None, endDate |-> None]
NoStatsError == [caught |-> "ok", resolved |-> 0]

StatsFailed == [status |-> 500, success |-> FALSE, data |-> None,
                error |-> "Failed to fetch statistics"]

\* parseInt(totalPages.rows[0].total || 0)
TotalPagesOf(sum) == IF IsSome(sum) THEN Val(sum) ELSE 0

StatsOk(res) ==
  [status |-> 200, success |-> TRUE,
   data |-> Some([totalJobs |-> res.count, totalPages |-> TotalPagesOf(res.sum),
                  topUsers |-> res.users, topPrinters |-> res.printers]),
   error |-> ""]

\* The handler up to Promise.all: the four statements are handed to the pool.
StatsBegin(req) ==
  /\ spc = {}
  /\ spc' = Statements
  /\ sreq' = req
  /\ sres' = NoStats
  /\ sat' = NoSnapshots
  /\ statsResp' = None
  /\ statsErr' = NoStatsError
  /\ UNCHANGED <<ingestVars, clock, queryVars, walk, healthResp, extVars, agentVars>>

\* Result of statement s over the table as it is when the statement runs.
StatementResult(s, st, req, uord, pord) ==
  IF s = "count" THEN [NoStats EXCEPT !.count = Cardinality(InRange(st, req))]
  ELSE IF s = "sum" THEN [NoStats EXCEPT !.sum = SumPages(st, InRange(st, req))]
  ELSE IF s = "users" THEN [NoStats EXCEPT !.users = Top(uord)]
  ELSE [NoStats EXCEPT !.printers = Top(pord)]

\* One of the four pool.query calls runs, each on its own connection and at
\* its own moment.  The first rejection rejects Promise.all and the catch
\* block answers; once all four have resolved the response is sent.
\* statsErr is what the catch block caught, and how many of the statements
\* had resolved by then.
StatsStatement(s, up, uord, pord) ==
  /\ s \in spc
  /\ uord \in UserOrderings(UserGroups(store, sreq))
  /\ pord \in PrinterOrderings(PrinterGroups(store, sreq))
  /\ LET r == StatementResult(s, store, sreq, uord, pord)
         res == [sres EXCEPT ![s] = r[s]]
     IN IF up
          THEN /\ sres' = res
               /\ sat' = [sat EXCEPT ![s] = Len(store)]
               /\ spc' = spc \ {s}
               /\ statsResp' = IF spc = {s} THEN Some(StatsOk(res)) ELSE None
               /\ UNCHANGED statsErr
          ELSE /\ sres' = NoStats
               /\ sat' = NoSnapshots
               /\ spc' = {}
               /\ statsResp' = Some(StatsFailed)
               /\ statsErr' = [caught |-> "down",
                               resolved |-> Cardinality(Statements \ spc)]
  /\ UNCHANGED <<sreq, ingestVars, clock, queryVars, walk, healthResp, extVars, agentVars>>

----------------------------------------------------------------------------
(* GET /health *)

Health ==
  /\ healthResp' = Some([status |-> "OK", timestamp |-> clock])
  /\ UNCHANGED <<ingestVars, clock, queryVars, walk, statsVars, extVars, agentVars>>

\* A GET for a path arrives at the Express router.  The health handler is
\* registered at /health and nowhere else; a path no route and no static
\* file matches falls through to Express's final handler, which answers 404
\* "Cannot GET <path>".  Neither way is the pool used.
Get(path) ==
  /\ probe' = Some([path |-> path,
                    status |-> IF path = "/health" THEN 200 ELSE 404,
                    body |-> IF path = "/health"
                               THEN Some([status |-> "OK", timestamp |-> clock])
                               ELSE None])
  /\ healthResp' = IF path = "/health"
                     THEN Some([status |-> "OK", timestamp |-> clock])
                     ELSE healthResp
  /\ UNCHANGED <<ingestVars, clock, queryVars, walk, statsVars, waiting, dashVars, agentVars>>

----------------------------------------------------------------------------
(* await pool.query(...) on a store that does not answer *)

Handlers == {"ingest", "query", "stats"}

\* A request of handler h arrives and its handler sends a statement that the
\* store does not answer: the handler is suspended at `await pool.query`.
\* The pool is created without connectionTimeoutMillis, statement_timeout or
\* query_timeout, so no timer runs that would reject the promise.
Suspend(h) ==
  /\ h \notin waiting
  /\ waiting' = waiting \cup {h}
  /\ UNCHANGED <<serverVars, probe, dashVars, agentVars>>

\* The store answers the statement after all, and the handler's promise
\* settles: the only way a suspended handler goes on.
Settle(h) ==
  /\ h \in waiting
  /\ waiting' = waiting \ {h}
  /\ UNCHANGED <<serverVars, probe, dashVars, agentVars>>

----------------------------------------------------------------------------
(* The dashboard page (the script of backend/server.js's HTML page) *)

\* setTimeout(loadData, 300), in tenths of a second.
Debounce == 3

\* The query string loadData builds: a parameter for each filter field whose
\* value is not empty.  The field followed here is userFilter; the others
\* stay empty.
QueryOf(text) == [NoQuery EXCEPT !.user = IF text = <<>> THEN None ELSE Some(text)]

\* What the body of the table shows: nothing yet, "Loading...", the error
\* line, the "No print jobs found" line, or one line per job.
Blank == [kind |-> "blank", rows |-> <<>>]
Loading == [kind |-> "loading", rows |-> <<>>]
ErrorShown == [kind |-> "error", rows |-> <<>>]

\* The seven cells of a job's line.
Cell(r) ==
  [document |-> IF TruthyText(r.document_name) THEN Val(r.document_name)
                                               ELSE <<"Unknown Document">>,
   user |-> r.user_name,
   machine |-> r.machine_name,
   printer |-> r.printer_name,
   pages |-> r.page_count,
   time |-> r.print_time,
   status |-> r.status]

\* displayPrintJobs(jobs)
Display(jobs) ==
  IF Len(jobs) = 0 THEN [kind |-> "empty", rows |-> <<>>]
  ELSE [kind |-> "rows", rows |-> [i \in DOMAIN jobs |-> Cell(jobs[i])]]

\* displayStats(stats): the four cards.
NoCards == [totalJobs |-> 0, totalPages |-> 0, activeUsers |-> 0, activePrinters |-> 0]
CardsOf(stats) ==
  [totalJobs |-> stats.totalJobs, totalPages |-> stats.totalPages,
   activeUsers |-> Len(stats.topUsers), activePrinters |-> Len(stats.topPrinters)]

\* setTimeout(loadData, 300): one more timer; none is ever cleared.
Armed(pending, due) == Append(pending, due)

\* loadData() up to its first await: the table shows "Loading...", the
\* filter values are read and the request for the jobs is sent.  latest is
\* what the load issued last has put in the table, None so far.
LoadData ==
  /\ issued' = issued + 1
  /\ table' = Loading
  /\ loads' = loads \cup {[id |-> issued + 1, q |-> QueryOf(field),
                           phase |-> "jobs", jobs |-> None, stats |-> None]}
  /\ latest' = None

\* The page is opened and its script runs: the listeners are added,
\* loadData() is called and the interval is set.
Open ==
  /\ ~opened
  /\ opened' = TRUE
  /\ LoadData
  /\ UNCHANGED <<serverVars, waiting, probe, agentVars, field, dnow, timers,
                 lastInput, burstLoads, firedAt, cards>>

\* An input event begins a burst when the timers of the events before it
\* have run and 300 ms have passed since the last of them.
NewBurst ==
  timers = <<>> /\ (IsSome(lastInput) => dnow - Val(lastInput) >= Debounce)

\* An input event on the filter field: its value is now text, and the
\* listener sets a timer.  burstLoads counts the loadData calls the timers
\* of the present burst have made, firedAt is the time of the last of them.
Input(text) ==
  /\ opened
  /\ text # field
  /\ issued + Len(timers) < MaxLoads
  /\ field' = text
  /\ timers' = Armed(timers, dnow + Debounce)
  /\ lastInput' = Some(dnow)
  /\ burstLoads' = IF NewBurst THEN 0 ELSE burstLoads
  /\ firedAt' = IF NewBurst THEN None ELSE firedAt
  /\ UNCHANGED <<serverVars, waiting, probe, agentVars, opened, dnow, issued,
                 loads, table, cards, latest>>

\* A timer that is due runs loadData.
Fire ==
  /\ timers # <<>>
  /\ Head(timers) <= dnow
  /\ timers' = Tail(timers)
  /\ LoadData
  /\ burstLoads' = burstLoads + 1
  /\ firedAt' = Some(dnow)
  /\ UNCHANGED <<serverVars, waiting, probe, agentVars, opened, field, dnow,
                 lastInput, cards>>

\* A tenth of a second passes; a timer that is due runs first.
Elapse ==
  /\ opened
  /\ dnow < MaxTime
  /\ timers # <<>> => Head(timers) > dnow
  /\ dnow' = dnow + 1
  /\ UNCHANGED <<serverVars, waiting, probe, agentVars, opened, field, timers,
                 lastInput, burstLoads, firedAt, issued, loads, table, cards,
                 latest>>

\* setInterval(loadData, 30000): the interval's turn comes.
AutoRefresh ==
  /\ opened
  /\ issued + Len(timers) < MaxLoads
  /\ LoadData
  /\ UNCHANGED <<serverVars, waiting, probe, agentVars, opened, field, dnow,
                 timers, lastInput, burstLoads, firedAt, cards>>

\* The Refresh button: onclick="loadData()".
Refresh ==
  /\ opened
  /\ issued + Len(timers) < MaxLoads
  /\ LoadData
  /\ UNCHANGED <<serverVars, waiting, probe, agentVars, opened, field, dnow,
                 timers, lastInput, burstLoads, firedAt, cards>>

\* The statistics response over the table as it stands, no range given.
StatsNow(st, uord, pord) ==
  StatsOk([count |-> Cardinality(InRange(st, NoRange)),
           sum |-> SumPages(st, InRange(st, NoRange)),
           users |-> Top(uord), printers |-> Top(pord)])

\* The API answers the request a load is waiting for: the query handler for
\* its jobs request, the statistics handler for its stats request.
Answer(l, up, ord, uord, pord) ==
  /\ l \in loads
  /\ ord \in Orderings(store, Selected(store, l.q))
  /\ uord \in UserOrderings(UserGroups(store, NoRange))
  /\ pord \in PrinterOrderings(PrinterGroups(store, NoRange))
  /\ \/ /\ l.phase = "jobs" /\ l.jobs = None
        /\ LET rows == [i \in DOMAIN Slice(ord, OffsetOf(l.q), LimitOf(l.q)) |->
                          store[Slice(ord, OffsetOf(l.q), LimitOf(l.q))[i]]]
               resp == IF PageOutcome(l.q, up) = "ok"
                         THEN QueryOk(l.q, rows, CountOf(store, l.q))
                         ELSE FetchFailed
           IN loads' = (loads \ {l}) \cup {[l EXCEPT !.jobs = Some(resp)]}
     \/ /\ l.phase = "stats" /\ l.stats = None
        /\ LET resp == IF up THEN StatsNow(store, uord, pord) ELSE StatsFailed
           IN loads' = (loads \ {l}) \cup {[l EXCEPT !.stats = Some(resp)]}
  /\ UNCHANGED <<serverVars, waiting, probe, agentVars, opened, field, dnow,
                 timers, lastInput, burstLoads, firedAt, issued, table, cards,
                 latest>>

\* A response reaches the script and loadData goes on after its await.  The
\* jobs response: displayPrintJobs when it says success, then the request
\* for the statistics is sent.  The stats response: displayStats when it
\* says success, and the load is over.
Arrive(l) ==
  /\ l \in loads
  /\ \/ /\ l.phase = "jobs" /\ IsSome(l.jobs)
        /\ table' = IF Val(l.jobs).success THEN Display(Val(l.jobs).data) ELSE table
        /\ latest' = IF l.id = issued /\ Val(l.jobs).success
                       THEN Some(Display(Val(l.jobs).data)) ELSE latest
        /\ loads' = (loads \ {l}) \cup {[l EXCEPT !.phase = "stats"]}
        /\ UNCHANGED cards
     \/ /\ l.phase = "stats" /\ IsSome(l.stats)
        /\ cards' = IF Val(l.stats).success THEN CardsOf(Val(Val(l.stats).data))
                                            ELSE cards
        /\ loads' = loads \ {l}
        /\ UNCHANGED <<table, latest>>
  /\ UNCHANGED <<serverVars, waiting, probe, agentVars, opened, field, dnow,
                 timers, lastInput, burstLoads, firedAt, issued>>

\* fetch rejects (the API cannot be reached): the catch block of loadData
\* shows the error line and the load is over.
Reject(l) ==
  /\ l \in loads
  /\ IF l.phase = "jobs" THEN l.jobs = None ELSE l.stats = None
  /\ table' = ErrorShown
  /\ latest' = IF l.id = issued THEN Some(ErrorShown) ELSE latest
  /\ loads' = loads \ {l}
  /\ UNCHANGED <<serverVars, waiting, probe, agentVars, opened, field, dnow,
                 timers, lastInput, burstLoads, firedAt, issued, cards>>

----------------------------------------------------------------------------
(* Inputs *)

\* printTime is the date and time written in the timestamp string;
\* printZone is the zone designator of that string, as the number of hours
\* its zone is ahead of the server's, None when the string has none.
Report(job, user, machine, printer, doc, pages, time, status, size) ==
  [jobId |-> job, userName |-> user, machineName |-> machine,
   printerName |-> printer, documentName |-> doc, pageCount |-> pages,
   printTime |-> time, printZone |-> None, status |-> status, fileSize |-> size]

NoReport == Report(None, None, None, None, None, None, None, None, None)

FullReport ==
  Report(Some("J1"), Some(<<"A", "b">>), Some(<<"m">>), Some(<<"p">>),
         Some(<<"d">>), Some(2), Some(1), Some("failed"), Some(1))

\* Job reports for the ingestion handler: the full report, the reports that
\* differ from it in one required field (absent or empty) or carry a
\* negative page count, and the report with the three required fields only.
IngestReports ==
  {FullReport}
  \cup {[FullReport EXCEPT !.userName = v] : v \in {None, Some(<<>>)}}
  \cup {[FullReport EXCEPT !.machineName = v] : v \in {None, Some(<<>>)}}
  \cup {[FullReport EXCEPT !.printerName = v] : v \in {None, Some(<<>>)}}
  \cup {[FullReport EXCEPT !.pageCount = Some(-1)]}
  \cup {Report(None, Some(<<"b">>), Some(<<"m">>), Some(<<"q">>),
               None, None, None, None, None)}

\* Job reports that differ in their printTime: an earlier and a later one
\* written without a zone, the later one written in the server's zone and in
\* a zone one hour ahead of the server's, and none at all.
TimeReports ==
  {FullReport,
   [FullReport EXCEPT !.printTime = Some(2)],
   [FullReport EXCEPT !.printTime = Some(2), !.printZone = Some(0)],
   [FullReport EXCEPT !.printTime = Some(2), !.printZone = Some(1)],
   [FullReport EXCEPT !.printTime = None]}

\* Job reports for the query handler: two share a print time, names differ
\* in case, one has no document name.
QueryReports ==
  {Report(Some("J1"), Some(<<"A", "b">>), Some(<<"m">>), Some(<<"p">>),
          Some(<<"d">>), Some(2), Some(1), Some("completed"), Some(1)),
   Report(Some("J1"), Some(<<"b">>), Some(<<"m">>), Some(<<"P">>),
          None, Some(1), Some(1), Some("completed"), Some(1)),
   Report(Some("J2"), Some(<<"b">>), Some(<<"m">>), Some(<<"q">>),
          Some(<<"A">>), Some(3), Some(2), Some("completed"), Some(1))}

Query(page, limit, user, printer, startDate, endDate, search) ==
  [page |-> page, limit |-> limit, user |-> user, printer |-> printer,
   startDate |-> startDate, endDate |-> endDate, search |-> search]

FilterSets ==
  {Query(None, None, None, None, None, None, None),
   Query(None, None, Some(<<"a">>), None, None, None, None),
   Query(None, None, Some(<<"_">>), None, None, None, None),
   Query(None, None, Some(<<>>), Some(<<"P">>), None, None, None),
   Query(None, None, None, None, Some(2), None, None),
   Query(None, None, None, None, None, Some(1), None),
   Query(None, None, None, None, None, None, Some(<<"D">>)),
   Query(None, None, Some(<<"B">>), None, Some(1), Some(1), Some(<<"a">>))}

\* Requests that vary the filters and take the default page and limit.
FilterQueries == FilterSets

\* Requests that vary page and limit over a few filter sets.
PagingFilters ==
  {Query(None, None, None, None, None, None, None),
   Query(None, None, None, None, None, None, Some(<<"D">>))}
\* <<page, limit>> as given in the request: absent, valid, zero, negative.
PageLimits ==
  {<<None, None>>, <<Some(1), Some(1)>>, <<Some(2), Some(1)>>, <<Some(3), Some(1)>>,
   <<Some(1), Some(2)>>, <<Some(2), Some(2)>>, <<None, Some(0)>>, <<Some(0), Some(1)>>,
   <<Some(0), Some(0)>>, <<Some(1), Some(-1)>>, <<Some(0), Some(-1)>>}

PagingQueries ==
  {[f EXCEPT !.page = pl[1], !.limit = pl[2]] : f \in PagingFilters, pl \in PageLimits}

\* Job reports for the statistics handler: two users, two printers, one
\* report without page count and print time.
StatsReports ==
  {Report(Some("J1"), Some(<<"A", "b">>), Some(<<"m">>), Some(<<"p">>),
          Some(<<"d">>), Some(2), Some(1), Some("completed"), Some(1)),
   Report(Some("J2"), Some(<<"b">>), Some(<<"m">>), Some(<<"p">>),
          Some(<<"d">>), Some(1), Some(2), Some("completed"), Some(1)),
   Report(Some("J3"), Some(<<"b">>), Some(<<"m">>), Some(<<"q">>),
          Some(<<"d">>), None, None, Some("completed"), Some(1))}

Ranges ==
  {NoRange,
   [startDate |-> Some(2), endDate |-> None],
   [startDate |-> None, endDate |-> Some(1)],
   [startDate |-> Some(1), endDate |-> Some(1)]}

\* One input of every handler, for the runs in which all handlers share the
\* store: the full report, and the first page of one record.
AllReports == {FullReport}
AllQueries == {Query(None, Some(1), None, None, None, None, None)}

\* Requests whose filters no stored record passes, next to one that the
\* stored record passes.
NoMatchQueries ==
  {Query(None, None, Some(<<"q">>), None, None, None, None),
   Query(None, None, Some(<<"b">>), None, None, None, None)}
NoMatchRanges == {NoRange, [startDate |-> Some(3), endDate |-> Some(3)]}

\* The paths a liveness probe is sent to: the one server.js registers and
\* the one the deployment README and validate-installation.sh use.
ProbePaths == {"/health", "/api/health"}

----------------------------------------------------------------------------
(* The Ubuntu print monitor agent (ubuntu-print-monitor.sh, UbuntuPrintMonitor) *)

\* A line of `lpstat -W completed -o` is kept as line.split(): its parts.
\* Position of the last "-" of a text, 0 when it has none.
LastDash(t) ==
  IF \E i \in 1..Len(t) : t[i] = "-"
    THEN CHOOSE i \in 1..Len(t) : t[i] = "-" /\ \A j \in (i + 1)..Len(t) : t[j] # "-"
    ELSE 0

\* printer_name.replace('_', ' ')
Spaced(t) == [i \in 1..Len(t) |-> IF t[i] = "_" THEN " " ELSE t[i]]

\* str(int(time.time()))
Digits == <<"1", "2", "3", "4">>
Str(n) == <<Digits[n]>>

\* The job id of a line: what follows the last "-" of its first part.
JobOf(line, now) ==
  IF LastDash(line[1]) > 0
    THEN SubSeq(line[1], LastDash(line[1]) + 1, Len(line[1]))
    ELSE Str(now)

\* parse_job_line with the details get_job_details falls back to: None for
\* a line of fewer than three parts.  The jobId is f"cups-{job_id}-{now}".
ParseJobLine(line, now) ==
  IF Len(line) < 3 THEN None
  ELSE Some([Report(Some(<<"cups", JobOf(line, now), now>>),
                    Some(line[2]),
                    Some(<<"m">>),
                    Some(Spaced(IF LastDash(line[1]) > 0
                                  THEN SubSeq(line[1], 1, LastDash(line[1]) - 1)
                                  ELSE line[1])),
                    Some(<<"D">> \o JobOf(line, now)),
                    Some(1), Some(now), Some("completed"), Some(1024))
             EXCEPT !.printZone = None])

RECURSIVE NewJobs(_, _, _)
\* The loop of get_print_jobs over the lines of the output: a line that is
\* not in the cache and that parses becomes a job and enters the cache at
\* once, so that a later copy of it in the same output is skipped.
NewJobs(lines, cache, now) ==
  IF lines = <<>> THEN <<>>
  ELSE IF Head(lines) \notin cache /\ IsSome(ParseJobLine(Head(lines), now))
    THEN <<[line |-> Head(lines), job |-> Val(ParseJobLine(Head(lines), now))]>>
         \o NewJobs(Tail(lines), cache \cup {Head(lines)}, now)
  ELSE NewJobs(Tail(lines), cache, now)

LinesOf(jobs) == {jobs[i].line : i \in 1..Len(jobs)}

\* A cache that takes a line only once its job has been sent with success.
CachedAlt(cache, jobs) == cache

\* self.processed_jobs.add(line) for every job returned.
Cached(cache, jobs) == cache \cup LinesOf(jobs)

\* CUPS completes a job: lpstat lists one more line.
Complete(line) ==
  /\ \A i \in 1..Len(lpstat) : lpstat[i] # line
  /\ lpstat' = Append(lpstat, line)
  /\ UNCHANGED <<serverVars, extVars, processed, queue, apc, apiUp, subs, detected>>

\* jobs = self.get_print_jobs(): lpstat runs and its output is gone through;
\* when lpstat fails or times out (~ok) there are no jobs.
Poll(ok) ==
  /\ apc = "poll"
  /\ LET jobs == IF ok THEN NewJobs(lpstat, processed, clock) ELSE <<>>
     IN /\ queue' = jobs
        /\ processed' = Cached(processed, jobs)
        /\ detected' = detected \cup LinesOf(jobs)
        /\ apc' = IF jobs = <<>> THEN "clean" ELSE "send"
  /\ UNCHANGED <<serverVars, extVars, lpstat, apiUp, subs>>

\* self.send_to_api(job) for the next job of the loop: one POST.  When the
\* endpoint is unreachable the request raises ConnectionError and no handler
\* runs; otherwise the ingestion handler answers 201 or 500.  Either way the
\* result is logged and the loop goes on to the next job.
Send(up) ==
  /\ apc = "send"
  /\ queue # <<>>
  /\ IF apiUp THEN Ingest(Head(queue).job, up)
              ELSE UNCHANGED <<serverVars, extVars>>
  /\ queue' = Tail(queue)
  /\ subs' = [subs EXCEPT ![Head(queue).line] = @ + 1]
  /\ apc' = IF Tail(queue) = <<>> THEN "clean" ELSE "send"
  /\ UNCHANGED <<lpstat, processed, apiUp, detected>>

\* The end of one round of the loop: once an hour has passed since the last
\* check, a cache of more than CacheLimit lines is cleared; then sleep(10).
Clean(hour) ==
  /\ apc = "clean"
  /\ apc' = "poll"
  /\ IF hour /\ Cardinality(processed) > CacheLimit
       THEN /\ processed' = {}
            /\ subs' = [l \in DOMAIN subs |-> 0]
       ELSE UNCHANGED <<processed, subs>>
  /\ UNCHANGED <<serverVars, extVars, lpstat, queue, apiUp, detected>>

\* The service is stopped and started: a new process with an empty cache.
Restart ==
  /\ processed # {}
  /\ processed' = {}
  /\ queue' = <<>>
  /\ apc' = "poll"
  /\ subs' = [l \in DOMAIN subs |-> 0]
  /\ UNCHANGED <<serverVars, extVars, lpstat, apiUp, detected>>

\* The API endpoint becomes unreachable, and reachable again.
Outage ==
  /\ apiUp
  /\ apiUp' = FALSE
  /\ UNCHANGED <<serverVars, extVars, lpstat, processed, queue, apc, subs, detected>>

Recover ==
  /\ ~apiUp
  /\ apiUp' = TRUE
  /\ UNCHANGED <<serverVars, extVars, lpstat, processed, queue, apc, subs, detected>>

\* Lines of lpstat: printer p job 1 of user a, printer "p_q" job 2 of user
\* b, and a line of two parts only.
AgentLines ==
  {<<<<"p", "-", "1">>, <<"a">>, <<"9">>>>,
   <<<<"p", "_", "q", "-", "2">>, <<"b">>, <<"9">>>>,
   <<<<"p", "-", "3">>, <<"c">>>>}

\* Values typed into the filter field: nothing, and a text no user name
\* of the reports holds.
FilterTexts == {<<>>, <<"q">>}

----------------------------------------------------------------------------
(* Specifications *)

Init ==
  /\ store = <<>>
  /\ idSeq = 1
  /\ clock = 1
  /\ nOk = 0
  /\ ingestReq = NoReport
  /\ ingestResp = None
  /\ ingestErr = "ok"
  /\ qpc = "idle"
  /\ qreq = NoQuery
  /\ qrows = <<>>
  /\ qat = [page |-> 0, count |-> 0]
  /\ queryResp = None
  /\ queryErr = "ok"
  /\ walk = None
  /\ spc = {}
  /\ sreq = NoRange
  /\ sres = NoStats
  /\ sat = NoSnapshots
  /\ statsResp = None
  /\ statsErr = NoStatsError
  /\ healthResp = None
  /\ waiting = {}
  /\ probe = None
  /\ lpstat = <<>>
  /\ processed = {}
  /\ queue = <<>>
  /\ apc = "poll"
  /\ apiUp = TRUE
  /\ subs = [l \in AgentLines |-> 0]
  /\ detected = {}
  /\ opened = FALSE
  /\ field = <<>>
  /\ dnow = 0
  /\ timers = <<>>
  /\ lastInput = None
  /\ burstLoads = 0
  /\ firedAt = None
  /\ issued = 0
  /\ loads = {}
  /\ table = Blank
  /\ cards = NoCards
  /\ latest = None

IngestStep(reports, ups) ==
  \E b \in reports, up \in ups : Ingest(b, up) /\ UNCHANGED agentVars

QueryPageStep(queries) ==
  \E q \in queries, up \in BOOLEAN :
    \E ord \in Orderings(store, Selected(store, q)) : QueryPage(q, up, ord)

QueryCountStep == \E up \in BOOLEAN : QueryCount(up)

StatsBeginStep == \E req \in Ranges : StatsBegin(req)

StatsStatementStep ==
  \E s \in Statements, up \in BOOLEAN :
    \E uord \in UserOrderings(UserGroups(store, sreq)) :
      \E pord \in PrinterOrderings(PrinterGroups(store, sreq)) :
        StatsStatement(s, up, uord, pord)

\* Ingestion alone, over the reports that exercise validation and defaults.
NextIngest == IngestStep(IngestReports, BOOLEAN) \/ Tick
SpecIngest == Init /\ [][NextIngest]_vars

\* Filtered queries running while reports are ingested.
NextFilter ==
  IngestStep(QueryReports, {TRUE}) \/ QueryPageStep(FilterQueries) \/ QueryCountStep
SpecFilter == Init /\ [][NextFilter]_vars

\* Paged queries running while reports are ingested.
NextPaging ==
  IngestStep(QueryReports, {TRUE}) \/ QueryPageStep(PagingQueries) \/ QueryCountStep
SpecPaging == Init /\ [][NextPaging]_vars

\* Statistics running while reports are ingested.
NextStats ==
  IngestStep(StatsReports, BOOLEAN) \/ StatsBeginStep \/ StatsStatementStep
SpecStats == Init /\ [][NextStats]_vars

\* All four handlers over one store.
NextAll ==
  \/ IngestStep(AllReports, BOOLEAN)
  \/ QueryPageStep(AllQueries)
  \/ QueryCountStep
  \/ StatsBegin(NoRange)
  \/ StatsStatementStep
  \/ Health
SpecAll == Init /\ [][NextAll]_vars

\* Queries and statistics that select nothing from a store that is not empty.
NextNoMatch ==
  \/ IngestStep(AllReports, {TRUE})
  \/ QueryPageStep(NoMatchQueries)
  \/ QueryCountStep
  \/ \E req \in NoMatchRanges : StatsBegin(req)
  \/ StatsStatementStep
SpecNoMatch == Init /\ [][NextNoMatch]_vars

\* Requests on a store that may leave statements unanswered.  The server
\* keeps taking the steps that are its own; when the store answers is not
\* in its hands, so nothing is assumed about Settle.
NextHang ==
  \/ IngestStep(AllReports, BOOLEAN)
  \/ Tick
  \/ \E h \in Handlers : Suspend(h)
  \/ \E h \in Handlers : Settle(h)
SpecHang ==
  /\ Init /\ [][NextHang]_vars
  /\ WF_vars(IngestStep(AllReports, BOOLEAN))
  /\ WF_vars(Tick)

\* Liveness probes while reports are ingested and the store comes and goes.
NextProbe ==
  \/ IngestStep(IngestReports, BOOLEAN)
  \/ Tick
  \/ \E path \in ProbePaths : Get(path)
SpecProbe == Init /\ [][NextProbe]_vars

\* Ingestion of reports that differ in their printTime, as time passes.
NextTime == IngestStep(TimeReports, BOOLEAN) \/ Tick
SpecTime == Init /\ [][NextTime]_vars

\* The agent's own steps: its loop runs for as long as the process does.
AgentStep ==
  \/ \E ok \in BOOLEAN : Poll(ok)
  \/ \E up \in BOOLEAN : Send(up)
  \/ \E hour \in BOOLEAN : Clean(hour)

\* The agent on a client whose jobs complete, against an endpoint that comes
\* and goes.  The loop keeps running; nothing is assumed about the rest.
NextAgent ==
  \/ AgentStep
  \/ \E line \in AgentLines : Complete(line)
  \/ Restart
  \/ Outage
  \/ Recover
SpecAgent == Init /\ [][NextAgent]_vars /\ WF_vars(AgentStep)

\* The agent kept running, lpstat answering every time, against an endpoint
\* that comes and goes.  The loop never stops, and time passes: again and
\* again a round ends more than an hour after the last check of the cache.
RunStep ==
  \/ Poll(TRUE)
  \/ \E up \in BOOLEAN : Send(up)
  \/ \E hour \in BOOLEAN : Clean(hour)
NextRetry ==
  \/ RunStep
  \/ \E line \in AgentLines : Complete(line)
  \/ Outage
  \/ Recover
SpecRetry ==
  /\ Init /\ [][NextRetry]_vars
  /\ WF_vars(RunStep)
  /\ SF_vars(Clean(TRUE))

\* The dashboard in one browser, over a store that receives reports and
\* answers every statement.
AnswerStep ==
  \E l \in loads, up \in {TRUE} :
    \E ord \in Orderings(store, Selected(store, l.q)),
       uord \in UserOrderings(UserGroups(store, NoRange)),
       pord \in PrinterOrderings(PrinterGroups(store, NoRange)) :
      Answer(l, up, ord, uord, pord)
NextDash ==
  \/ IngestStep(AllReports, {TRUE})
  \/ Open
  \/ \E text \in FilterTexts : Input(text)
  \/ Fire
  \/ Elapse
  \/ AutoRefresh
  \/ Refresh
  \/ AnswerStep
  \/ \E l \in loads : Arrive(l)
  \/ \E l \in loads : Reject(l)
SpecDash == Init /\ [][NextDash]_vars

Next == NextIngest \/ NextFilter \/ NextPaging \/ NextStats \/ NextAll \/ NextNoMatch \/ NextHang \/ NextProbe \/ NextTime \/ NextAgent \/ NextRetry \/ NextDash
Spec == Init /\ [][Next]_vars

----------------------------------------------------------------------------
(* Vocabulary of the properties *)

Rows(st) == {st[i] : i \in 1..Len(st)}

\* The failure answers of the handlers carry one generic message each: the
\* answer given when the store call threw.  A validation failure would be a
\* failure answer that is not that one.
IsStorageError(resp) ==
  ~resp.success /\ resp.error \in {SaveFailed.error, FetchFailed.error, StatsFailed.error}
IsValidationError(resp) == ~resp.success /\ ~IsStorageError(resp)

MissingRequired(b) ==
  ~TruthyText(b.userName) \/ ~TruthyText(b.machineName) \/ ~TruthyText(b.printerName)

\* A step of the ingestion handler other than the exact repetition of the
\* previous failed call.
IngestHappens ==
  <<ingestReq, ingestResp, ingestErr, idSeq, store>>' # <<ingestReq, ingestResp, ingestErr, idSeq, store>>

----------------------------------------------------------------------------
(* C1: a report whose userName, machineName or printerName is absent or    *)
(* empty is refused with a ValidationError and nothing is stored, so no    *)
(* stored record has an empty user, machine or printer name.               *)
C1_RequiredFieldsValidated ==
  /\ (IsSome(ingestResp) /\ MissingRequired(ingestReq) /\ ingestErr # "down") =>
        IsValidationError(Val(ingestResp))
  /\ \A r \in Rows(store) :
        r.user_name # <<>> /\ r.machine_name # <<>> /\ r.printer_name # <<>>

(* C2: a successful ingestion of a report without pageCount, fileSize or   *)
(* status stores and echoes pageCount = 0, fileSize = 0, status =          *)
(* "completed".                                                            *)
C2_DefaultsApplied ==
  (IsSome(ingestResp) /\ Val(ingestResp).success) =>
    LET row == Val(Val(ingestResp).data)
    IN /\ row \in Rows(store)
       /\ ~IsSome(ingestReq.pageCount) => row.page_count = Some(0)
       /\ ~IsSome(ingestReq.fileSize) => row.file_size = Some(0)
       /\ ~IsSome(ingestReq.status) => row.status = Some("completed")

RECURSIVE JobsIn(_)
JobsIn(groups) ==
  IF groups = <<>> THEN 0 ELSE Head(groups).job_count + JobsIn(Tail(groups))

RECURSIVE PagesIn(_)
PagesIn(groups) ==
  IF groups = <<>> THEN 0
  ELSE (IF IsSome(Head(groups).page_count) THEN Val(Head(groups).page_count) ELSE 0)
       + PagesIn(Tail(groups))

(* C5: the four values of one aggregation response come from the same set *)
(* of records: with at most 10 users and printers, totalJobs is the sum of *)
(* jobCount over topUsers and over topPrinters, and totalPages the sum of  *)
(* pageCount over each, also when ingestions run during the aggregation.   *)
C5_OneSnapshot ==
  (IsSome(statsResp) /\ Val(statsResp).success) =>
    LET d == Val(Val(statsResp).data)
    IN /\ d.totalJobs = JobsIn(d.topUsers)
       /\ d.totalJobs = JobsIn(d.topPrinters)
       /\ d.totalPages = PagesIn(d.topUsers)
       /\ d.totalPages = PagesIn(d.topPrinters)

SeqRows(rows) == {rows[i] : i \in 1..Len(rows)}
Descending(rows) ==
  \A i, j \in 1..Len(rows) : i < j => rows[i].print_time >= rows[j].print_time
TiesOldestFirst(rows) ==
  \A i, j \in 1..Len(rows) :
    (i < j /\ rows[i].print_time = rows[j].print_time) => rows[i].id < rows[j].id
TiesNewestFirst(rows) ==
  \A i, j \in 1..Len(rows) :
    (i < j /\ rows[i].print_time = rows[j].print_time) => rows[i].id > rows[j].id

\* The reader has received every page 1..ceil(total/limit) of its query.
WalkComplete(w) ==
  /\ LimitOf(w.filters) >= 1
  /\ w.next - 1 >= CeilDiv(w.total, LimitOf(w.filters))

(* C6: with no write in between, the pages 1..ceil(total/limit) of a query *)
(* concatenated hold every matching record exactly once, in descending     *)
(* print-time order, also when matching records share a print time.        *)
C6_PaginationLaw ==
  (IsSome(walk) /\ WalkComplete(Val(walk))) =>
    LET w == Val(walk)
        S == Selected(store, w.filters)
    IN /\ Len(w.acc) = Cardinality(S)
       /\ SeqRows(w.acc) = {store[i] : i \in S}
       /\ Descending(w.acc)

(* C7: every page is in descending print-time order, and records of equal  *)
(* print time come in one fixed order of their identities, the same in     *)
(* every execution: so the pages one reader receives of one query over an  *)
(* unchanged store order equal print times one way throughout.             *)
C7_DeterministicTies ==
  /\ (IsSome(queryResp) /\ Val(queryResp).success) => Descending(Val(queryResp).data)
  /\ IsSome(walk) => (TiesOldestFirst(Val(walk).acc) \/ TiesNewestFirst(Val(walk).acc))

\* x occurs in s as a substring, without regard to case.
Contains(x, s) ==
  \E k \in 0..(Len(s) - Len(x)) : \A i \in 1..Len(x) : Lower(s[k + i]) = Lower(x[i])

Satisfies(q, r) ==
  /\ IsSome(q.user) => Contains(Val(q.user), r.user_name)
  /\ IsSome(q.printer) => Contains(Val(q.printer), r.printer_name)
  /\ IsSome(q.startDate) => r.print_time >= Val(q.startDate)
  /\ IsSome(q.endDate) => r.print_time <= Val(q.endDate)
  /\ IsSome(q.search) =>
       \/ IsSome(r.document_name) /\ Contains(Val(q.search), Val(r.document_name))
       \/ Contains(Val(q.search), r.user_name)

(* C8: the records a query returns over all its pages are exactly the      *)
(* stored records that satisfy every supplied filter: user and printer as  *)
(* case-insensitive substrings, the inclusive date bounds, search as a     *)
(* case-insensitive substring of document name or user name.               *)
C8_ExactlyTheMatching ==
  (IsSome(queryResp) /\ Val(queryResp).success /\ Len(store) <= LimitOf(qreq)
     /\ PageOf(qreq) = 1) =>
    SeqRows(Val(queryResp).data) =
      {store[i] : i \in {k \in 1..qat.page : Satisfies(qreq, store[k])}}

Max(a, b) == IF a > b THEN a ELSE b

\* The request with a page or limit below 1 raised to 1.
Clamped(q) == [q EXCEPT !.page = Some(Max(1, PageOf(q))),
                        !.limit = Some(Max(1, LimitOf(q)))]

\* The answers the clamped request can get over the table st.
ClampedAnswers(q, st) ==
  {[status |-> 200, success |-> TRUE,
    data |-> [i \in DOMAIN Slice(ord, OffsetOf(Clamped(q)), LimitOf(Clamped(q))) |->
                st[Slice(ord, OffsetOf(Clamped(q)), LimitOf(Clamped(q)))[i]]],
    pagination |-> Some([page |-> PageOf(Clamped(q)), limit |-> LimitOf(Clamped(q)),
                         total |-> Cardinality(Selected(st, q)),
                         pages |-> Some(CeilDiv(Cardinality(Selected(st, q)),
                                                LimitOf(Clamped(q))))]),
    error |-> ""] : ord \in Orderings(st, Selected(st, q))}

(* C10: a query with page <= 0 or limit <= 0 either fails with a           *)
(* ValidationError or is answered as the query with the offending value    *)
(* clamped to 1 would be (the store answering its calls, and nothing       *)
(* written meanwhile).                                                     *)
C10_RejectOrClamp ==
  (/\ IsSome(queryResp)
   /\ PageOf(qreq) <= 0 \/ LimitOf(qreq) <= 0
   /\ queryErr # "down"
   /\ Val(queryResp).success => (qat.page = Len(store) /\ qat.count = Len(store))) =>
    \/ IsValidationError(Val(queryResp))
    \/ Val(queryResp) \in ClampedAnswers(qreq, store)

\* The first n records of the table: the table as a statement saw it.
Snapshot(n) == SubSeq(store, 1, n)

\* A record passes the date filter of an aggregation request.
PassesRange(req, r) ==
  (IsSome(req.startDate) /\ IsSome(req.endDate)) =>
     (Val(req.startDate) <= r.print_time /\ r.print_time <= Val(req.endDate))

RECURSIVE PagesOver(_, _)
\* The page counts of the records of st that pass the filter, added up; a
\* record without page count adds nothing.
PagesOver(st, req) ==
  IF st = <<>> THEN 0
  ELSE (IF PassesRange(req, Head(st)) /\ IsSome(Head(st).page_count)
          THEN Val(Head(st).page_count) ELSE 0)
       + PagesOver(Tail(st), req)

(* C11: in a successful aggregation response totalJobs is the number of    *)
(* records that pass the date filter and totalPages is the sum of their    *)
(* page counts, each over the table as its statement saw it; totalPages is *)
(* a number, 0 when no record matches.                                     *)
C11_Totals ==
  (IsSome(statsResp) /\ Val(statsResp).success) =>
    LET d == Val(Val(statsResp).data)
    IN /\ d.totalJobs =
            Cardinality({i \in 1..sat.count : PassesRange(sreq, store[i])})
       /\ d.totalPages \in Nat
       /\ d.totalPages = PagesOver(Snapshot(sat.sum), sreq)
       /\ {i \in 1..sat.sum : PassesRange(sreq, store[i])} = {} => d.totalPages = 0

C11_Witness ==
  /\ IsSome(statsResp) /\ Val(statsResp).success
  /\ IsSome(sreq.startDate) /\ IsSome(sreq.endDate)
  /\ sat.count = 2 /\ sat.sum = 2
  /\ Val(Val(statsResp).data).totalJobs = 1
  /\ Val(Val(statsResp).data).totalPages = 2

\* Text order: character by character, a proper prefix first.
Alphabet == <<"A", "B", "D", "P", "_", "a", "b", "d", "m", "p", "q">>
Rank(c) == CHOOSE k \in 1..Len(Alphabet) : Alphabet[k] = c

RECURSIVE NameBefore(_, _)
NameBefore(a, b) ==
  IF b = <<>> THEN FALSE
  ELSE IF a = <<>> THEN TRUE
  ELSE IF Head(a) = Head(b) THEN NameBefore(Tail(a), Tail(b))
  ELSE Rank(Head(a)) < Rank(Head(b))

\* The summed page count of a listed user; a sum reported as null is read as
\* the sum of no pages.
PagesOfGroup(g) == IF IsSome(g.page_count) THEN Val(g.page_count) ELSE 0

(* C12: topUsers lists at most 10 distinct users, each with its job count  *)
(* and summed page count, in non-increasing order of the summed page count *)
(* and, for equal sums, in ascending order of the user name; records       *)
(* ingested without a page count included.                                 *)
C12_TopUsers ==
  (IsSome(statsResp) /\ Val(statsResp).success) =>
    LET u == Val(Val(statsResp).data).topUsers
    IN /\ Len(u) <= 10
       /\ \A i \in 1..Len(u) : u[i].job_count >= 1
       /\ \A i, j \in 1..Len(u) :
            i < j =>
              \/ PagesOfGroup(u[i]) > PagesOfGroup(u[j])
              \/ /\ PagesOfGroup(u[i]) = PagesOfGroup(u[j])
                 /\ NameBefore(u[i].name, u[j].name)

(* C13: topPrinters lists at most 10 distinct printers in non-increasing   *)
(* order of their job count and, for equal job counts, in ascending order  *)
(* of the printer name.                                                    *)
C13_TopPrinters ==
  (IsSome(statsResp) /\ Val(statsResp).success) =>
    LET p == Val(Val(statsResp).data).topPrinters
    IN /\ Len(p) <= 10
       /\ \A i, j \in 1..Len(p) :
            i < j =>
              \/ p[i].job_count > p[j].job_count
              \/ /\ p[i].job_count = p[j].job_count
                 /\ NameBefore(p[i].name, p[j].name)

\* The answer to a first page that the walk w holds.
FirstPage(w) == [asked |-> w.asked, data |-> w.acc, total |-> w.total]

(* C14: the same query (same filters, page and limit) executed twice with  *)
(* no write in between gets the same records in the same order and the     *)
(* same total: here for two successive first-page requests of one reader.  *)
C14_Repeatable ==
  [][(/\ IsSome(walk) /\ IsSome(walk')
      /\ Val(walk).next = 2 /\ Val(walk').next = 2
      /\ Val(walk').asked = Val(walk).asked) =>
       FirstPage(Val(walk')) = FirstPage(Val(walk))]_vars

(* C15: no step changes or removes a record the store holds: the store     *)
(* only ever gains the record a successful ingestion echoes, at its end,   *)
(* and a step of the query, aggregation or health handler leaves the store *)
(* as it was.                                                              *)
C15_AppendOnly ==
  [][/\ Len(store') >= Len(store)
     /\ SubSeq(store', 1, Len(store)) = store
     /\ store' # store =>
          /\ IsSome(ingestResp') /\ Val(ingestResp').success
          /\ store' = Append(store, Val(Val(ingestResp').data))
     /\ (queryVars' # queryVars \/ statsVars' # statsVars \/ healthResp' # healthResp) =>
          store' = store]_vars

C15_Witness ==
  /\ Len(store) = 2
  /\ store[1].job_id = store[2].job_id
  /\ IsSome(queryResp) /\ Val(queryResp).success /\ qat.page = 2
  /\ IsSome(statsResp) /\ Val(statsResp).success /\ sat.users = 2
  /\ IsSome(healthResp)

(* C16: ingestion does not refuse a report because its jobId is already    *)
(* stored or its printTime is earlier than a stored one: every report with *)
(* the required fields that reaches the store is answered with success and *)
(* adds a record of its own, so a report ingested k times is k records     *)
(* with k different identities.                                            *)
C16_DuplicatesStored ==
  /\ (IsSome(ingestResp) /\ ~MissingRequired(ingestReq) /\ ingestErr # "down") =>
        /\ Val(ingestResp).success
        /\ store # <<>>
        /\ store[Len(store)] = Val(Val(ingestResp).data)
        /\ store[Len(store)].job_id = ingestReq.jobId
  /\ \A i, j \in 1..Len(store) :
        (i # j /\ store[i].job_id = store[j].job_id) => store[i].id # store[j].id

C16_Witness ==
  /\ Len(store) = 2
  /\ store[1].job_id = Some("J1")
  /\ store[1] = [store[2] EXCEPT !.id = store[1].id]
  /\ store[1].id # store[2].id
  /\ IsSome(ingestResp) /\ Val(ingestResp).success
  /\ Val(Val(ingestResp).data) = store[2]

C18_NonNegative ==
  \A r \in Rows(store) :
    /\ IsSome(r.page_count) /\ Val(r.page_count) \in Nat
    /\ IsSome(r.file_size) /\ Val(r.file_size) \in Nat

\* The number of the first n records whose print time is within [lo, hi].
Within(n, lo, hi) ==
  Cardinality({i \in 1..n : lo <= store[i].print_time /\ store[i].print_time <= hi})

(* C19: an aggregation request with only startDate or only endDate is      *)
(* answered as the request without a range is, over all records; the range *)
(* restricts the records, startDate <= print time <= endDate, only when    *)
(* both bounds are supplied.                                               *)
C19_RangeNeedsBoth ==
  (IsSome(statsResp) /\ Val(statsResp).success) =>
    LET d == Val(Val(statsResp).data)
    IN IF IsSome(sreq.startDate) /\ IsSome(sreq.endDate)
         THEN /\ d.totalJobs = Within(sat.count, Val(sreq.startDate), Val(sreq.endDate))
              /\ JobsIn(d.topUsers) = Within(sat.users, Val(sreq.startDate), Val(sreq.endDate))
              /\ JobsIn(d.topPrinters) =
                   Within(sat.printers, Val(sreq.startDate), Val(sreq.endDate))
         ELSE /\ d.totalJobs = sat.count
              /\ d.totalPages = PagesOver(Snapshot(sat.sum), NoRange)
              /\ JobsIn(d.topUsers) = sat.users
              /\ JobsIn(d.topPrinters) = sat.printers

C19_Witness ==
  /\ IsSome(statsResp) /\ Val(statsResp).success
  /\ sreq = [startDate |-> None, endDate |-> Some(1)]
  /\ sat.count = 2
  /\ \E i \in 1..2 : store[i].print_time > 1
  /\ Val(Val(statsResp).data).totalJobs = 2

(* C20: when a store call fails during ingestion, query or aggregation the *)
(* response is success=false with status 500 and the handler's generic     *)
(* message, and carries no data: not the page already read when the count  *)
(* statement fails, not the results of the aggregation statements that had *)
(* resolved when another one failed.                                       *)
C20_StorageErrorNoData ==
  /\ (IsSome(ingestResp) /\ ingestErr # "ok") =>
        Val(ingestResp) = [status |-> 500, success |-> FALSE, data |-> None,
                           error |-> "Failed to save print job"]
  /\ (IsSome(queryResp) /\ queryErr # "ok") =>
        Val(queryResp) = [status |-> 500, success |-> FALSE, data |-> <<>>,
                          pagination |-> None, error |-> "Failed to fetch print jobs"]
  /\ statsErr.caught # "ok" =>
        statsResp = Some([status |-> 500, success |-> FALSE, data |-> None,
                          error |-> "Failed to fetch statistics"])
  /\ (queryErr = "ok" /\ IsSome(queryResp)) => Val(queryResp).success
  /\ (statsErr.caught = "ok" /\ IsSome(statsResp)) => Val(statsResp).success

C20_Witness ==
  /\ ingestErr = "down" /\ IsSome(ingestResp)
  /\ queryErr = "down" /\ qrows # <<>> /\ IsSome(queryResp)
  /\ statsErr.caught = "down" /\ statsErr.resolved >= 1 /\ IsSome(statsResp)

(* C21: an ingestion request that fails validation (a required field       *)
(* absent or empty) is answered without a statement reaching the Job       *)
(* Store: the INSERT does not run, so no identity is drawn from the        *)
(* sequence and the answer is not the table's refusal of the row.          *)
C21_InvalidNeverReachesStore ==
  [][(IngestHappens /\ MissingRequired(ingestReq')) =>
       (idSeq' = idSeq /\ ingestErr' # "constraint")]_vars

(* C22: a query or an aggregation whose filters no stored record passes is *)
(* answered with success when the store answers: the query with an empty   *)
(* page, total 0 and pages 0, the aggregation with totalJobs 0, totalPages *)
(* 0 and empty topUsers and topPrinters.                                   *)
C22_NoMatchSucceeds ==
  /\ (/\ IsSome(queryResp) /\ queryErr = "ok"
      /\ PageOf(qreq) >= 1 /\ LimitOf(qreq) >= 1
      /\ \A r \in Rows(store) : ~Satisfies(qreq, r)) =>
        /\ Val(queryResp).success
        /\ Val(queryResp).data = <<>>
        /\ Val(Val(queryResp).pagination).total = 0
        /\ Val(Val(queryResp).pagination).pages = Some(0)
  /\ (/\ IsSome(statsResp) /\ statsErr.caught = "ok"
      /\ \A r \in Rows(store) : ~PassesRange(sreq, r)) =>
        /\ Val(statsResp).success
        /\ Val(Val(statsResp).data).totalJobs = 0
        /\ Val(Val(statsResp).data).totalPages = 0
        /\ Val(Val(statsResp).data).topUsers = <<>>
        /\ Val(Val(statsResp).data).topPrinters = <<>>

C22_Witness ==
  /\ Len(store) = 2
  /\ qat.page = 2 /\ qat.count = 2
  /\ IsSome(queryResp) /\ Val(queryResp).success /\ TruthyText(qreq.user)
  /\ Val(Val(queryResp).pagination).total = 0
  /\ sat.count = 2 /\ IsSome(sreq.startDate)
  /\ IsSome(statsResp) /\ Val(statsResp).success
  /\ Val(Val(statsResp).data).totalJobs = 0

(* C23: every request is answered in the end: a handler waiting for a      *)
(* statement the store does not answer stops waiting after a bounded time  *)
(* and answers with a StorageError.                                        *)
C23_NoHang == \A h \in Handlers : (h \in waiting) ~> (h \notin waiting)

(* C24: the liveness probe sent to GET /api/health, the path of the        *)
(* deployment README and the validation scripts, is answered with the      *)
(* service status and the current server time, whatever the state of the   *)
(* store.                                                                  *)
C24_ProbeAtApiHealth ==
  (IsSome(probe) /\ Val(probe).path = "/api/health") =>
    /\ Val(probe).status = 200
    /\ IsSome(Val(probe).body)
    /\ Val(Val(probe).body).status = "OK"
    /\ Val(Val(probe).body).timestamp \in 1..clock

\* The moment a report's printTime denotes, as a reading of the server's
\* clock: a zone that is k hours ahead reads k hours more at the same moment.
SuppliedMoment(b) ==
  Val(b.printTime) - (IF IsSome(b.printZone) THEN Val(b.printZone) ELSE 0)

(* C25: a successful ingestion of a report without printTime stores the    *)
(* server's current time as the print time; a supplied printTime is stored *)
(* unchanged: the stored print time is the moment the report gave.         *)
C25_PrintTimeKept ==
  [][(IngestHappens /\ IsSome(ingestResp') /\ Val(ingestResp').success) =>
       LET row == Val(Val(ingestResp').data)
       IN /\ ~IsSome(ingestReq'.printTime) => row.print_time = clock
          /\ IsSome(ingestReq'.printTime) => row.print_time = SuppliedMoment(ingestReq')]_vars

\* The length of page q of a result of total records.
PageLength(q, total) == Min(LimitOf(q), Max(0, total - OffsetOf(q)))

(* C27: the page and the total of one query response come from one state   *)
(* of the store, also when reports are ingested while the query runs: the  *)
(* page holds as many records as the reported total leaves for it, so a    *)
(* first page shorter than limit comes with a total equal to its length.   *)
C27_PageMatchesTotal ==
  (IsSome(queryResp) /\ Val(queryResp).success
     /\ PageOf(qreq) >= 1 /\ LimitOf(qreq) >= 1) =>
    Len(Val(queryResp).data) =
      PageLength(qreq, Val(Val(queryResp).pagination).total)

\* The store holds a record that came from the lpstat line.
Stored(line) ==
  \E r \in Rows(store) : IsSome(r.job_id) /\ Val(r.job_id)[2] = JobOf(line, 1)

(* C26: the agent retries a report whose ingestion call failed: provided   *)
(* the endpoint becomes reachable for good, with its store answering, and  *)
(* the agent keeps running, every completed job the agent has detected is  *)
(* stored in the end (as far as the store of the model has room).          *)
C26_RetryUntilStored ==
  (<>[](apiUp /\ ingestErr = "ok")) =>
    \A l \in AgentLines : (l \in detected) ~> (Stored(l) \/ Len(store) = MaxJobs)

\* The number of records of the store that came from the lpstat line.
RecordsOf(line) ==
  Cardinality({i \in 1..Len(store) :
                 IsSome(store[i].job_id) /\ Val(store[i].job_id)[2] = JobOf(line, 1)})

\* The agent has submitted the line: one more POST of its job.
Submits(line) == subs'[line] = subs[line] + 1

(* C30: between two clears of its cache, and within one process, the agent *)
(* submits each line reported by lpstat at most once, whether or not the   *)
(* submission succeeded: a line enters the cache when it is queued and is  *)
(* skipped while it is there.  A submission the endpoint answers with 201, *)
(* the first of a line or one made after a clear or a restart, adds one    *)
(* record to the store.                                                    *)
C30_OncePerCache ==
  [][/\ \A l \in AgentLines :
          /\ subs'[l] <= 1
          /\ Submits(l) => (l \in processed /\ subs[l] = 0)
          /\ (Submits(l) /\ apiUp /\ ingestErr' = "ok") =>
               (RecordsOf(l)' = RecordsOf(l) + 1 /\ Len(store') = Len(store) + 1)
          /\ (Submits(l) /\ ~(apiUp /\ ingestErr' = "ok")) => store' = store]_vars

\* A line still reported after the cache was emptied has been submitted again
\* and the store holds two records of it.
C30_Witness ==
  \E l \in AgentLines : RecordsOf(l) = 2 /\ subs[l] = 1 /\ l \in processed

(* C28: the filter input is debounced: the input events of a burst, each   *)
(* within 300 ms of the one before, make one loadData call between them,   *)
(* and that call is made 300 ms or more after the last event of the burst. *)
C28_Debounced ==
  IsSome(lastInput) =>
    /\ burstLoads <= 1
    /\ IsSome(firedAt) => Val(firedAt) >= Val(lastInput) + Debounce
    /\ dnow > Val(lastInput) + Debounce => burstLoads = 1

(* C29: once no request of the dashboard is outstanding, the table shows   *)
(* what the load issued last has displayed, whatever the order in which    *)
(* the responses of overlapping loads arrived.  Stated for loads whose     *)
(* requests were answered: no error line is involved.                      *)
C29_LatestLoadShown ==
  (opened /\ loads = {} /\ IsSome(latest)
     /\ table # ErrorShown /\ latest # Some(ErrorShown)) =>
    table = Val(latest)

====
